---- MODULE Spec2Model ----
(***************************************************************************)
(* Model of the filesystem lock coordinator of src/coordinator.go.         *)
(*                                                                         *)
(* Every lock contender owns one Coordinator value (Dir, FilePath).  The   *)
(* shared directory is the only shared state.  File names are strings,     *)
(* modelled as sequences of character codes, and the directory listing is  *)
(* sorted by byte-wise comparison of the names, as os.ReadDir does.        *)
(***************************************************************************)
EXTENDS Integers, Sequences, FiniteSets, TLC

\* ------------------------------------------------------------- bounds
\* Number of lock contenders.
NumProcs == 3
\* The time stamps run over the TimeSpan + 1 consecutive instants that end
\* at 10.
TimeSpan == 0
\* ioutil.TempFile draws its random suffix from 0 .. MaxSuffix.
MaxSuffix == 2

Procs == 1..NumProcs
Times == (10 - TimeSpan)..10
Suffixes == 0..MaxSuffix

\* ------------------------------------------------------------- names
\* The empty string: FilePath before CreateWaitFile, toWatch when the own
\* wait file is not in the listing.
NoPath == << >>

\* Character codes of '-' and of the decimal digits.
Dash == <<45>>
DigitChar(d) == 48 + d

\* fmt.Sprintf("%d", n) for n >= 0.
RECURSIVE Itoa(_)
Itoa(n) == IF n < 10 THEN <<DigitChar(n)>>
           ELSE Itoa(n \div 10) \o <<DigitChar(n % 10)>>

\* "queuer-"
Prefix == <<113, 117, 101, 117, 101, 114, 45>>

\* The file name ioutil.TempFile makes of the pattern "queuer-<t>-*" with
\* random string r.
WaitFileName(t, r) == Prefix \o Itoa(t) \o Dash \o Itoa(r)

\* Go's string comparison a < b (byte-wise lexicographic).
RECURSIVE StrLess(_, _)
StrLess(a, b) ==
  IF b = << >> THEN FALSE
  ELSE IF a = << >> THEN TRUE
  ELSE IF Head(a) # Head(b) THEN Head(a) < Head(b)
  ELSE StrLess(Tail(a), Tail(b))

\* The names in S, sorted by file name.
RECURSIVE SortNames(_)
SortNames(S) ==
  IF S = {} THEN << >>
  ELSE LET m == CHOOSE x \in S : \A y \in S \ {x} : StrLess(x, y)
       IN  <<m>> \o SortNames(S \ {m})

\* "0", the file the callers of TestWaitInLine and TestWaitInLineCancel put
\* in the directory themselves.
OtherFile == <<48>>

\* Every file name there can be in the directory, and all of them in sorted
\* order.
AllNames == {WaitFileName(t, r) : t \in Times, r \in Suffixes} \cup {OtherFile}
SortedNames == SortNames(AllNames)

\* os.ReadDir: the entries of the directory, sorted by file name (the
\* sorted names, those kept that are in the directory).
ReadDir(d) == SelectSeq(SortedNames, LAMBDA n : n \in d)

\* ------------------------------------------------------------- state
VARIABLES
  goos,       \* runtime.GOOS of the build: "linux" or "other"
  now,        \* the latest value time.Now().UnixNano() returned
  dirExists,  \* whether co.Dir exists
  dir,        \* the file names present in co.Dir
  pc,         \* where each contender is
  FilePath,   \* co.FilePath of each contender
  files,      \* the listing of the contender's CutInLine
  idx,        \* CutInLine's position in its listing (1-based)
  toWatch,    \* WaitInLine's toWatch, between the listing and WaitForFile
  ctxDone,    \* whether the context of the running WaitInLine is cancelled
  result,     \* how the contender's last call ended
  target,     \* filePath of the WaitForFile call of the running WaitInLine
  watcher,    \* the fsnotify watcher of the contender's latest subscription
  events,     \* notifications queued on that watcher's Events channel
  gor,        \* the goroutine WaitForFile started for that subscription
  errors,     \* errors queued on that watcher's Errors channel
  delivered   \* values that goroutine has delivered on the result channel

vars == <<goos, now, dirExists, dir, pc, FilePath, files, idx, toWatch,
          ctxDone, result, target, watcher, events, gor, errors,
          delivered>>

InitAt(t0) ==
  /\ goos \in {"linux", "other"}
  /\ now = t0
  /\ dirExists = FALSE
  /\ dir = {}
  /\ pc = [p \in Procs |-> "idle"]
  /\ FilePath = [p \in Procs |-> NoPath]
  /\ files = [p \in Procs |-> << >>]
  /\ idx = [p \in Procs |-> 0]
  /\ toWatch = [p \in Procs |-> NoPath]
  /\ ctxDone = [p \in Procs |-> FALSE]
  /\ result = [p \in Procs |-> "none"]
  /\ target = [p \in Procs |-> NoPath]
  /\ watcher = [p \in Procs |-> "none"]
  /\ events = [p \in Procs |-> << >>]
  /\ gor = [p \in Procs |-> "none"]
  /\ errors = [p \in Procs |-> 0]
  /\ delivered = [p \in Procs |-> 0]

Init == InitAt(10 - TimeSpan)

\* ------------------------------------------------- notification facility
\* Whether the watch of contender p's subscription reports operation op on
\* the file called name.  On Linux the watch is on the parent directory of
\* the target (the current directory when the target is ""), elsewhere on
\* the target file itself, which reports its own removal.
Watches(p, name, op) ==
  /\ watcher[p] = "added"
  /\ IF goos = "linux" THEN target[p] # NoPath
     ELSE target[p] = name /\ op = "Remove"

\* The path of co.Dir itself, as a notification names it.
DirPath == <<47>>

\* The Events queues after operation op on the file called name.
Notify(name, op) ==
  [p \in Procs |->
     IF Watches(p, name, op)
     THEN Append(events[p], [Name |-> name, Op |-> op])
     ELSE events[p]]

\* os.Remove of one file of the directory.
RemoveFile(name) ==
  /\ dir' = dir \ {name}
  /\ events' = Notify(name, "Remove")

\* ---------------------------------------------------------- CreateWaitFile
\* os.MkdirAll, then ioutil.TempFile with the pattern "queuer-<t>-*", t being
\* time.Now().UnixNano(), which does not run backwards.  TempFile retries
\* until the name is new; names are taken to be unique over the whole run.
CreateAt(p, t, r) ==
  LET name == WaitFileName(t, r) IN
  /\ pc[p] = "idle"
  /\ FilePath[p] = NoPath
  /\ t >= now
  /\ \A q \in Procs : FilePath[q] # name
  /\ now' = t
  /\ dirExists' = TRUE
  /\ dir' = dir \cup {name}
  /\ FilePath' = [FilePath EXCEPT ![p] = name]
  /\ events' = Notify(name, "Create")
  /\ UNCHANGED <<errors, delivered>>
  /\ UNCHANGED <<goos, pc, files, idx, toWatch, ctxDone, result,
                 target, watcher, gor>>

\* CreateWaitFile at one of the instants and with one of the random strings
\* of the model.
CreateWaitFile(p) ==
  /\ FilePath[p] = NoPath
  /\ \E t \in Times, r \in Suffixes : CreateAt(p, t, r)

\* ---------------------------------------------------------------- WaitInLine
\* The 1-based position of path in listing fs, 0 when it is not listed.
OwnIndex(fs, path) ==
  IF \E i \in 1..Len(fs) : fs[i] = path
  THEN CHOOSE i \in 1..Len(fs) : fs[i] = path
  ELSE 0

\* A scan that is content with finding the own file anywhere.
IsListed(fs, path) == OwnIndex(fs, path) >= 1

\* A scan that takes the second place for the first as well.
IsFirstOrSecond(fs, path) == OwnIndex(fs, path) \in {1, 2}

\* The scan of the listing finds the own file at the head: "First in line."
IsFirst(fs, path) == OwnIndex(fs, path) = 1

\* toWatch after the scan: the entry right before the own file, "" when the
\* own file is not listed.
Predecessor(fs, path) ==
  IF OwnIndex(fs, path) > 1 THEN fs[OwnIndex(fs, path) - 1] ELSE NoPath

\* The goroutine of a subscription outlives the WaitInLine that made it: once
\* nobody receives from its result channel, its steps change nothing but
\* itself, and only the fact that it is still there is kept ("leaked").
Abandon(p) ==
  /\ target' = [target EXCEPT ![p] = NoPath]
  /\ events' = [events EXCEPT ![p] = << >>]
  /\ gor' = [gor EXCEPT ![p] = "leaked"]

\* The process ends: its watcher and goroutine end with it.
ProcessGone(p) ==
  /\ target' = [target EXCEPT ![p] = NoPath]
  /\ watcher' = [watcher EXCEPT ![p] = "none"]
  /\ events' = [events EXCEPT ![p] = << >>]
  /\ gor' = [gor EXCEPT ![p] = "none"]

\* One pass through the top of WaitInLine's loop: os.ReadDir, whose error is
\* fatal to the process, and the scan of the listing.
LoopTop(p) ==
  IF ~dirExists
  THEN /\ pc' = [pc EXCEPT ![p] = "fatal"]
       /\ UNCHANGED result
       /\ ProcessGone(p)
       /\ UNCHANGED toWatch
  ELSE LET fs == ReadDir(dir) IN
       /\ IF IsFirst(fs, FilePath[p])
          THEN /\ pc' = [pc EXCEPT ![p] = "idle"]
               /\ result' = [result EXCEPT ![p] = "first"]
               /\ UNCHANGED toWatch
          ELSE /\ pc' = [pc EXCEPT ![p] = "wl_watch"]
               /\ UNCHANGED result
               /\ toWatch' = [toWatch EXCEPT ![p] =
                                Predecessor(fs, FilePath[p])]
       /\ UNCHANGED <<target, watcher, events, gor>>

\* The caller, who has created its wait file, enters WaitInLine with a
\* context that is not yet cancelled.
WaitInLine(p) ==
  /\ pc[p] = "idle"
  /\ FilePath[p] # NoPath
  /\ pc' = [pc EXCEPT ![p] = "wl_list"]
  /\ result' = [result EXCEPT ![p] = "none"]
  /\ UNCHANGED <<errors, delivered>>
  /\ UNCHANGED <<goos, now, dirExists, dir, FilePath, files, idx, toWatch,
                 ctxDone, target, watcher, events, gor>>

\* The loop is entered, or comes round after a wake-up.
WL_Loop(p) ==
  /\ pc[p] = "wl_list"
  /\ LoopTop(p)
  /\ ctxDone' = [ctxDone EXCEPT ![p] = ctxDone[p] /\ pc'[p] = "wl_watch"]
  /\ UNCHANGED <<errors, delivered>>
  /\ UNCHANGED <<goos, now, dirExists, dir, FilePath, files, idx>>

\* ---------------------------------------------------------------- WaitForFile
\* Whether watcher.Add succeeds for the target path: the parent directory
\* (or ".") exists on Linux; elsewhere the target file itself must exist.
AddSucceeds(path) ==
  IF goos = "linux" THEN path = NoPath \/ dirExists ELSE path \in dir

\* WaitForFile(toWatch, watchChan), called from WaitInLine: a new watcher
\* (which the system may refuse), the goroutine, then watcher.Add.  When
\* NewWatcher or Add fails, WaitForFile sends the error on the unbuffered
\* channel before anyone receives from it.
WaitForFile(p) ==
  /\ pc[p] = "wl_watch"
  /\ target' = [target EXCEPT ![p] = toWatch[p]]
  /\ toWatch' = [toWatch EXCEPT ![p] = NoPath]
  /\ events' = [events EXCEPT ![p] = << >>]
  /\ \E created \in BOOLEAN :
       IF ~created
       THEN /\ watcher' = [watcher EXCEPT ![p] = "none"]
            /\ gor' = [gor EXCEPT ![p] = "none"]
            /\ pc' = [pc EXCEPT ![p] = "wf_send"]
       ELSE /\ gor' = [gor EXCEPT ![p] = "select"]
            /\ IF AddSucceeds(toWatch[p])
               THEN /\ watcher' = [watcher EXCEPT ![p] = "added"]
                    /\ pc' = [pc EXCEPT ![p] = "wl_select"]
               ELSE /\ watcher' = [watcher EXCEPT ![p] = "open"]
                    /\ pc' = [pc EXCEPT ![p] = "wf_send"]
  /\ errors' = [errors EXCEPT ![p] = 0]
  /\ delivered' = [delivered EXCEPT ![p] = 0]
  /\ UNCHANGED <<goos, now, dirExists, dir, FilePath, files, idx,
                 ctxDone, result>>

\* What the goroutine does with a value received from watcher.Events
\* (ok = FALSE: the channel is closed): the state it is in next.
OnEvent(ev, ok, filePath) ==
  IF ev.Name # filePath THEN "select"
  ELSE IF ~ok THEN "send_err"
  ELSE IF ev.Op = "Remove" THEN "send_nil"
  ELSE "select"

\* The goroutine receives a notification from watcher.Events.
GorEvent(p) ==
  /\ gor[p] = "select"
  /\ watcher[p] \in {"open", "added"}
  /\ events[p] # << >>
  /\ events' = [events EXCEPT ![p] = Tail(events[p])]
  /\ gor' = [gor EXCEPT ![p] = OnEvent(Head(events[p]), TRUE, target[p])]
  /\ UNCHANGED <<errors, delivered>>
  /\ UNCHANGED <<goos, now, dirExists, dir, pc, FilePath, files, idx,
                 toWatch, ctxDone, result, target, watcher>>

\* ------------------------------------------------- WaitInLine, the select
\* What WaitInLine does with the value received from watchChan: nil closes
\* the watcher and loops, an error is fatal to the process.
OnWatchResult(sent) ==
  IF sent = "send_nil" THEN "wl_list" ELSE "fatal"

\* case err := <-watchChan
WL_Recv(p) ==
  /\ pc[p] = "wl_select"
  /\ gor[p] \in {"send_nil", "send_err"}
  /\ pc' = [pc EXCEPT ![p] = OnWatchResult(gor[p])]
  /\ IF OnWatchResult(gor[p]) = "wl_list"
     THEN /\ watcher' = [watcher EXCEPT ![p] = "closed"]
          /\ Abandon(p)
     ELSE ProcessGone(p)
  /\ UNCHANGED <<errors, delivered>>
  /\ UNCHANGED <<goos, now, dirExists, dir, FilePath, files, idx, toWatch,
                 ctxDone, result>>

\* A select that takes the cancellation and goes on waiting.
WL_CtxDoneKeepsWaiting(p) ==
  /\ pc[p] = "wl_select"
  /\ ctxDone[p]
  /\ ctxDone' = [ctxDone EXCEPT ![p] = FALSE]
  /\ UNCHANGED <<errors, delivered>>
  /\ UNCHANGED <<goos, now, dirExists, dir, pc, FilePath, files, idx,
                 toWatch, result, target, watcher, events, gor>>

\* A cancellation path that cleans up the caller's own wait file.
WL_CtxDoneRemovesOwn(p) ==
  /\ pc[p] = "wl_select"
  /\ ctxDone[p]
  /\ pc' = [pc EXCEPT ![p] = "idle"]
  /\ result' = [result EXCEPT ![p] = "cancelled"]
  /\ ctxDone' = [ctxDone EXCEPT ![p] = FALSE]
  /\ dir' = dir \ {FilePath[p]}
  /\ target' = [target EXCEPT ![p] = NoPath]
  /\ events' = [events EXCEPT ![p] = << >>]
  /\ gor' = [gor EXCEPT ![p] = "leaked"]
  /\ UNCHANGED <<errors, delivered>>
  /\ UNCHANGED <<goos, now, dirExists, FilePath, files, idx, toWatch,
                 watcher>>

\* case <-ctx.Done(): WaitInLine returns, the watcher stays as it is.
WL_CtxDone(p) ==
  /\ pc[p] = "wl_select"
  /\ ctxDone[p]
  /\ pc' = [pc EXCEPT ![p] = "idle"]
  /\ result' = [result EXCEPT ![p] = "cancelled"]
  /\ ctxDone' = [ctxDone EXCEPT ![p] = FALSE]
  /\ Abandon(p)
  /\ UNCHANGED <<errors, delivered>>
  /\ UNCHANGED <<goos, now, dirExists, dir, FilePath, files, idx, toWatch,
                 watcher>>

\* The caller cancels the context of its running WaitInLine.
Cancel(p) ==
  /\ pc[p] \in {"wl_list", "wl_watch", "wl_select", "wf_send"}
  /\ ~ctxDone[p]
  /\ ctxDone' = [ctxDone EXCEPT ![p] = TRUE]
  /\ UNCHANGED <<errors, delivered>>
  /\ UNCHANGED <<goos, now, dirExists, dir, pc, FilePath, files, idx,
                 toWatch, result, target, watcher, events, gor>>

\* ---------------------------------------------------------------- CutInLine
\* The caller, who has created its wait file, enters CutInLine: os.ReadDir,
\* whose error is returned.
CutInLine(p) ==
  /\ pc[p] = "idle"
  /\ FilePath[p] # NoPath
  /\ IF ~dirExists
     THEN /\ result' = [result EXCEPT ![p] = "cut_err"]
          /\ UNCHANGED <<pc, files, idx>>
     ELSE /\ files' = [files EXCEPT ![p] = ReadDir(dir)]
          /\ idx' = [idx EXCEPT ![p] = 1]
          /\ pc' = [pc EXCEPT ![p] = "cut_loop"]
          /\ result' = [result EXCEPT ![p] = "none"]
  /\ UNCHANGED <<errors, delivered>>
  /\ UNCHANGED <<goos, now, dirExists, dir, FilePath, toWatch, ctxDone,
                 target, watcher, events, gor>>

\* A loop that gives up after its first removal.
CutStopsAfterOne(fs, i, path) == i > 1 \/ fs[i] = path

\* Whether CutInLine's loop is over at entry i of listing fs: the listing is
\* exhausted or the entry is the caller's own file.
CutStops(fs, i, path) == i > Len(fs) \/ fs[i] = path

\* One round of CutInLine's loop: stop, or remove the entry, returning the
\* error of a failed removal.
CutStep(p) ==
  /\ pc[p] = "cut_loop"
  /\ IF CutStops(files[p], idx[p], FilePath[p])
     THEN /\ pc' = [pc EXCEPT ![p] = "idle"]
          /\ result' = [result EXCEPT ![p] = "cut_ok"]
          /\ idx' = [idx EXCEPT ![p] = 0]
          /\ files' = [files EXCEPT ![p] = << >>]
          /\ UNCHANGED <<dir, events>>
     ELSE IF files[p][idx[p]] \in dir
     THEN /\ RemoveFile(files[p][idx[p]])
          /\ idx' = [idx EXCEPT ![p] = idx[p] + 1]
          /\ UNCHANGED <<pc, result, files>>
     ELSE /\ pc' = [pc EXCEPT ![p] = "idle"]
          /\ result' = [result EXCEPT ![p] = "cut_err"]
          /\ idx' = [idx EXCEPT ![p] = 0]
          /\ files' = [files EXCEPT ![p] = << >>]
          /\ UNCHANGED <<dir, events>>
  /\ UNCHANGED <<errors, delivered>>
  /\ UNCHANGED <<goos, now, dirExists, FilePath, toWatch, ctxDone,
                 target, watcher, gor>>

\* ------------------------------------------------------------------ callers
\* The contender is done with the lock or gives up: os.Remove(file.Name()),
\* whose error is ignored, and the end of its process.
Release(p) ==
  /\ pc[p] = "idle"
  /\ FilePath[p] # NoPath
  /\ pc' = [pc EXCEPT ![p] = "done"]
  /\ dir' = dir \ {FilePath[p]}
  /\ events' = [q \in Procs |->
                  IF q = p THEN << >>
                  ELSE IF FilePath[p] \in dir
                  THEN Notify(FilePath[p], "Remove")[q]
                  ELSE events[q]]
  /\ target' = [target EXCEPT ![p] = NoPath]
  /\ watcher' = [watcher EXCEPT ![p] = "none"]
  /\ gor' = [gor EXCEPT ![p] = "none"]
  /\ files' = [files EXCEPT ![p] = << >>]
  /\ idx' = [idx EXCEPT ![p] = 0]
  /\ result' = [result EXCEPT ![p] = "none"]
  /\ ctxDone' = [ctxDone EXCEPT ![p] = FALSE]
  /\ errors' = [errors EXCEPT ![p] = 0]
  /\ delivered' = [delivered EXCEPT ![p] = 0]
  /\ UNCHANGED <<goos, now, dirExists, FilePath, toWatch>>

\* The empty directory is removed, as a caller's cleanup does with
\* os.Remove(dir).  A Linux watch on the directory reports it and ends.
RemoveDir ==
  /\ dirExists
  /\ dir = {}
  /\ dirExists' = FALSE
  /\ events' = Notify(DirPath, "Remove")
  /\ watcher' = [p \in Procs |->
                   IF goos = "linux" /\ Watches(p, DirPath, "Remove")
                   THEN "open" ELSE watcher[p]]
  /\ UNCHANGED <<errors, delivered>>
  /\ UNCHANGED <<goos, now, dir, pc, FilePath, files, idx, toWatch, ctxDone,
                 result, target, gor>>

Next ==
  \/ RemoveDir
  \/ \E p \in Procs :
       \/ CreateWaitFile(p)
       \/ WaitInLine(p)
       \/ WL_Loop(p)
       \/ WaitForFile(p)
       \/ GorEvent(p)
       \/ WL_Recv(p)
       \/ WL_CtxDone(p)
       \/ Cancel(p)
       \/ CutInLine(p)
       \/ CutStep(p)
       \/ Release(p)

Spec == Init /\ [][Next]_vars

\* ---------------------------------------------------------------- scenarios
\* The steps of the code itself: those of a running WaitInLine and of the
\* goroutine of its subscription.  Entering a call, cancelling and releasing
\* are up to the caller.
Running(p) ==
  WL_Loop(p) \/ WaitForFile(p) \/ WL_Recv(p) \/ WL_CtxDone(p) \/ GorEvent(p)

\* The Go scheduler does not stop while some goroutine can take a step.  In
\* the scenarios below every contender makes one call, so every run is
\* finite and this is all the scheduling guarantees of them: a run ends only
\* where no goroutine can move.
Scheduling == WF_vars(\E p \in Procs : Running(p))

\* A contender's one WaitInLine call.
WaitOnce(p) == result[p] = "none" /\ WaitInLine(p)

\* Contenders that create a wait file, wait in line once, may cancel, and
\* end by removing their file; nobody cuts in line.
NextWait ==
  \E p \in Procs :
    \/ CreateWaitFile(p)
    \/ WaitOnce(p)
    \/ WL_Loop(p)
    \/ WaitForFile(p)
    \/ GorEvent(p)
    \/ WL_Recv(p)
    \/ WL_CtxDone(p)
    \/ Cancel(p)
    \/ Release(p)

FairWait == Init /\ [][NextWait]_vars /\ Scheduling

\* The line of TestWaitInLineMultiple: all contenders create their wait
\* files, then all wait in line, nobody cancels, and a wait file is removed
\* only by the contender that has returned as first in line, once every
\* contender has called WaitInLine.
AllCreated == \A q \in Procs : FilePath[q] # NoPath

AllCalled ==
  \A q \in Procs : pc[q] # "idle" \/ result[q] = "first"

LineWait(p) == AllCreated /\ WaitOnce(p)

LineRelease(p) == AllCalled /\ result[p] = "first" /\ Release(p)

NextLine ==
  \E p \in Procs :
    \/ CreateWaitFile(p)
    \/ LineWait(p)
    \/ WL_Loop(p)
    \/ WaitForFile(p)
    \/ GorEvent(p)
    \/ WL_Recv(p)
    \/ LineRelease(p)

\* In the line the callers keep going as well: each calls WaitInLine, and
\* the one that is first in line removes its file.
FairLine == Init /\ [][NextLine]_vars /\ WF_vars(NextLine)

\* ------------------------------------------- the life of one subscription
\* Errors the watcher may have queued at a time.
MaxErrors == 1

\* The value received from a closed channel: the zero Event.
ZeroEvent == [Name |-> NoPath, Op |-> "None"]

\* What the goroutine does with a value received from watcher.Errors
\* (ok = FALSE: the channel is closed, the value is the nil error): an error
\* that was received is not passed on, the nil of the closed channel is sent.
OnError(ok) == IF ~ok THEN "send_nil" ELSE "select"

\* fsnotify reports an error on the watcher's Errors channel (an overflow of
\* the event queue, a failed read).
WatcherError(p) ==
  /\ watcher[p] = "added"
  /\ errors[p] < MaxErrors
  /\ errors' = [errors EXCEPT ![p] = errors[p] + 1]
  /\ UNCHANGED <<goos, now, dirExists, dir, pc, FilePath, files, idx,
                 toWatch, ctxDone, result, target, watcher, events, gor,
                 delivered>>

\* The goroutine receives an error from watcher.Errors.
GorError(p) ==
  /\ gor[p] = "select"
  /\ watcher[p] \in {"open", "added"}
  /\ errors[p] > 0
  /\ errors' = [errors EXCEPT ![p] = errors[p] - 1]
  /\ gor' = [gor EXCEPT ![p] = OnError(TRUE)]
  /\ UNCHANGED <<goos, now, dirExists, dir, pc, FilePath, files, idx,
                 toWatch, ctxDone, result, target, watcher, events,
                 delivered>>

\* The watcher is closed and with it both its channels: the goroutine
\* receives the zero Event from watcher.Events.
GorEventsClosed(p) ==
  /\ gor[p] = "select"
  /\ watcher[p] = "closed"
  /\ gor' = [gor EXCEPT ![p] = OnEvent(ZeroEvent, FALSE, target[p])]
  /\ UNCHANGED <<goos, now, dirExists, dir, pc, FilePath, files, idx,
                 toWatch, ctxDone, result, target, watcher, events, errors,
                 delivered>>

\* The watcher is closed: the goroutine receives from watcher.Errors.
GorErrorsClosed(p) ==
  /\ gor[p] = "select"
  /\ watcher[p] = "closed"
  /\ gor' = [gor EXCEPT ![p] = OnError(FALSE)]
  /\ UNCHANGED <<goos, now, dirExists, dir, pc, FilePath, files, idx,
                 toWatch, ctxDone, result, target, watcher, events, errors,
                 delivered>>

\* case err := <-watchChan, the goroutine of the subscription being followed
\* further: it has delivered its value and goes back to its select; on nil
\* WaitInLine closes the watcher (line 128) and is about to loop.
WL_RecvClose(p) ==
  /\ pc[p] = "wl_select"
  /\ gor[p] \in {"send_nil", "send_err"}
  /\ delivered' = [delivered EXCEPT ![p] = delivered[p] + 1]
  /\ IF OnWatchResult(gor[p]) = "wl_list"
     THEN /\ pc' = [pc EXCEPT ![p] = "wl_closed"]
          /\ watcher' = [watcher EXCEPT ![p] = "closed"]
          /\ gor' = [gor EXCEPT ![p] = "select"]
          /\ events' = [events EXCEPT ![p] = << >>]
          /\ errors' = [errors EXCEPT ![p] = 0]
          /\ UNCHANGED target
     ELSE /\ pc' = [pc EXCEPT ![p] = "fatal"]
          /\ ProcessGone(p)
          /\ UNCHANGED errors
  /\ UNCHANGED <<goos, now, dirExists, dir, FilePath, files, idx, toWatch,
                 ctxDone, result>>

\* The steps of the goroutine of a subscription.
Goroutine(p) ==
  GorEvent(p) \/ GorError(p) \/ GorEventsClosed(p) \/ GorErrorsClosed(p)

\* Contenders that create a wait file and wait in line once, each
\* subscription being followed from WaitForFile to past the closing of its
\* watcher.
NextWatch ==
  \E p \in Procs :
    \/ CreateWaitFile(p)
    \/ WaitOnce(p)
    \/ WL_Loop(p)
    \/ WaitForFile(p)
    \/ WatcherError(p)
    \/ GorEvent(p)
    \/ GorError(p)
    \/ GorEventsClosed(p)
    \/ GorErrorsClosed(p)
    \/ WL_RecvClose(p)
    \/ Release(p)

\* The goroutines are scheduled as long as one of them can take a step.
FairWatch ==
  Init /\ [][NextWatch]_vars /\ WF_vars(\E p \in Procs : Goroutine(p))

\* ------------------------------------------- names in creation order
\* Contender p has the lock: its WaitInLine returned as first in line, or
\* its CutInLine returned without error, and it has not released since.
Holds(p) == pc[p] = "idle" /\ result[p] \in {"first", "cut_ok"}

\* CreateWaitFile when the clock and the random string make the new name
\* sort after every name created before.
CreateInOrder(p) ==
  /\ CreateWaitFile(p)
  /\ \A q \in Procs :
       FilePath[q] # NoPath => StrLess(FilePath[q], FilePath'[p])

\* A contender that has the lock does not queue or cut for it again: it
\* keeps it until it releases.
QueueUp(p) == ~Holds(p) /\ WaitInLine(p)

CutIn(p) == ~Holds(p) /\ CutInLine(p)

\* Every interleaving of the calls, the releases and the removal of the
\* directory in which the names sort in creation order.
NextOrdered ==
  \/ RemoveDir
  \/ \E p \in Procs :
       \/ CreateInOrder(p)
       \/ QueueUp(p)
       \/ WL_Loop(p)
       \/ WaitForFile(p)
       \/ GorEvent(p)
       \/ WL_Recv(p)
       \/ WL_CtxDone(p)
       \/ Cancel(p)
       \/ CutIn(p)
       \/ CutStep(p)
       \/ Release(p)

OrderedSpec == Init /\ [][NextOrdered]_vars

\* ------------------------------------------- a directory with another file
\* A caller creates the file "0" in the directory, as the tests do with
\* os.Create(path.Join(dir, "0")).
CreateOther ==
  /\ dirExists
  /\ OtherFile \notin dir
  /\ dir' = dir \cup {OtherFile}
  /\ events' = Notify(OtherFile, "Create")
  /\ UNCHANGED <<goos, now, dirExists, pc, FilePath, files, idx, toWatch,
                 ctxDone, result, target, watcher, gor, errors, delivered>>

\* A contender's one CutInLine call.
CutOnce(p) == result[p] = "none" /\ CutInLine(p)

\* Contenders that wait in line or cut in line once and release, in a
\* directory where the file "0" turns up.
NextOther ==
  \/ CreateOther
  \/ \E p \in Procs :
       \/ CreateWaitFile(p)
       \/ WaitOnce(p)
       \/ WL_Loop(p)
       \/ WaitForFile(p)
       \/ GorEvent(p)
       \/ WL_Recv(p)
       \/ CutOnce(p)
       \/ CutStep(p)
       \/ Release(p)

OtherSpec == Init /\ [][NextOther]_vars

\* ------------------------------------------------------------ the names
\* The clock of the naming scenario runs from 0 to MaxClock.
MaxClock == 11

\* CreateWaitFile at an instant later than every earlier one.
CreateLater(p) ==
  \E t \in 0..MaxClock, r \in Suffixes : t > now /\ CreateAt(p, t, r)

\* Wait files created one after the other, each at a later instant.
NextNames == \E p \in Procs : CreateLater(p)

NameSpec == InitAt(0) /\ [][NextNames]_vars

\* ------------------------------------------------------------------ claims
\* The wait files present in the directory that sort before path.
Ahead(path) == {m \in dir : StrLess(m, path)}

\* Contender p is inside a WaitInLine call.
InWaitInLine(p) == pc[p] \in {"wl_list", "wl_watch", "wl_select", "wf_send"}

\* This step is the return of p's WaitInLine as first in line: the only way
\* from the top of the loop back to the caller.
ReturnsFirst(p) == pc[p] = "wl_list" /\ pc'[p] = "idle"

\* C1: a WaitInLine that returns as first in line does so on a listing in
\* which its own wait file is present and no present file sorts before it
\* (a removed name never comes back, so every file that was ahead of it when
\* it was called has been removed by then).
C1_ReturnsFirstOnlyWhenSmallest ==
  [][\A p \in Procs :
       ReturnsFirst(p) =>
         /\ result'[p] = "first"
         /\ FilePath[p] \in dir
         /\ Ahead(FilePath[p]) = {}]_vars

\* C1 witness: p has returned as first in line after a wake-up (its watcher
\* was closed on the way), a file that sorted before its own being gone.
C1_Witness ==
  \E p \in Procs, q \in Procs :
    /\ pc[p] = "idle" /\ result[p] = "first" /\ watcher[p] = "closed"
    /\ FilePath[q] # NoPath /\ StrLess(FilePath[q], FilePath[p])
    /\ FilePath[q] \notin dir

\* p's WaitInLine has returned as first in line.
HasReturnedFirst(p) == pc[p] = "idle" /\ result[p] = "first"

\* The system refused p a watcher (fsnotify.NewWatcher failed), which is the
\* matter of C12.
NoWatcher(p) == pc[p] = "wf_send" /\ watcher[p] = "none"

\* C2: a contender that is inside WaitInLine with its own wait file present
\* and the one file that was ahead of it removed (whether it had registered
\* its watch by then or not) returns as first in line.
C2_WakesAfterRemoval ==
  \A b \in Procs :
    (InWaitInLine(b) /\ FilePath[b] \in dir /\ Ahead(FilePath[b]) = {})
    ~> (HasReturnedFirst(b) \/ NoWatcher(b))

\* C3: in the line, every contender that has called WaitInLine returns as
\* first in line (the files being removed in sorted order, each by the
\* contender that returned before).
C3_AllReturnInTurn ==
  \A p \in Procs :
    InWaitInLine(p) ~> (HasReturnedFirst(p) \/ \E q \in Procs : NoWatcher(q))

\* C4: no two contenders blocked in WaitInLine's select watch the same wait
\* file, so that the removal of one file resolves the wait of one contender
\* at most.
C4_NoTwoWatchTheSame ==
  \A p \in Procs, q \in Procs :
    (/\ p # q
     /\ pc[p] = "wl_select" /\ pc[q] = "wl_select"
     /\ target[p] # NoPath)
    => target[p] # target[q]

\* This step is p's CutInLine returning without error.
CutReturnsOk(p) ==
  pc[p] = "cut_loop" /\ pc'[p] = "idle" /\ result'[p] = "cut_ok"

\* C5 as claimed: once p's CutInLine has returned without error, p's wait
\* file is in the directory (as it must be to be the smallest present one),
\* whatever the other contenders' WaitInLine, releases and CutInLine do.
C5_CutterStaysPresent ==
  \A p \in Procs :
    (pc[p] = "idle" /\ result[p] = "cut_ok") => FilePath[p] \in dir

\* C5 as amended: when p's CutInLine returns without error, every wait file
\* of its listing that sorts before p's own is absent from the directory,
\* and no present file sorts before p's own unless it was created after the
\* listing was taken.
C5_ListedPredecessorsAbsent ==
  [][\A p \in Procs :
       CutReturnsOk(p) =>
         /\ \A i \in 1..Len(files[p]) :
              StrLess(files[p][i], FilePath[p]) => files[p][i] \notin dir'
         /\ \A m \in dir' :
              StrLess(m, FilePath[p]) =>
                \A i \in 1..Len(files[p]) : files[p][i] # m]_vars

\* C5 witness: p's CutInLine has returned without error, p's wait file is
\* present and the smallest, and the file of a contender q that sorted
\* before it is gone though q never released it.
C5_Witness ==
  \E p \in Procs, q \in Procs :
    /\ pc[p] = "idle" /\ result[p] = "cut_ok"
    /\ FilePath[p] \in dir /\ Ahead(FilePath[p]) = {}
    /\ FilePath[q] # NoPath /\ StrLess(FilePath[q], FilePath[p])
    /\ FilePath[q] \notin dir /\ pc[q] # "done"

\* C6: a removal made by p's CutInLine (the only step that advances p's
\* position in its listing) removes only files that sort strictly before
\* p's own wait file.
C6_CutRemovesOnlyPredecessors ==
  [][\A p \in Procs :
       (pc[p] = "cut_loop" /\ idx'[p] = idx[p] + 1) =>
         \A m \in dir \ dir' : StrLess(m, FilePath[p])]_vars

\* C7: a WaitInLine that is blocked in its select behind a present
\* predecessor when its context is cancelled returns as cancelled, unless
\* the predecessor is removed after all.
C7_CancelledWaitReturns ==
  \A p \in Procs :
    (pc[p] = "wl_select" /\ ctxDone[p] /\ target[p] \in dir)
    ~> \/ pc[p] = "idle" /\ result[p] = "cancelled"
       \/ target[p] \notin dir

\* C7 witness: the cancelled WaitInLine has returned while the wait file
\* that was ahead of the caller's is still there.
C7_Witness ==
  \E p \in Procs :
    /\ pc[p] = "idle" /\ result[p] = "cancelled"
    /\ FilePath[p] \in dir /\ Ahead(FilePath[p]) # {}

\* C8: no step of WaitInLine (entering it, a pass through the loop, the
\* watch setup, a wake-up, either return) changes the directory.
C8_WaitInLineLeavesDirectory ==
  [][\A p \in Procs :
       (pc'[p] # pc[p] /\ (InWaitInLine(p) \/ InWaitInLine(p)')) =>
         (dir' = dir /\ dirExists' = dirExists)]_vars

\* C8 witness: a cancelled WaitInLine has returned and the caller's own wait
\* file is still there.
C8_Witness ==
  \E p \in Procs :
    pc[p] = "idle" /\ result[p] = "cancelled" /\ FilePath[p] \in dir

\* C9: a WaitInLine whose own wait file is missing from the listing does not
\* go on to watch anything: it is never about to watch, watching, or stuck
\* in the setup of a watch with the empty target.
C9_NoWatchWithoutOwnFile ==
  \A p \in Procs :
    /\ ~(pc[p] = "wl_watch" /\ toWatch[p] = NoPath)
    /\ ~(pc[p] \in {"wl_select", "wf_send"} /\ target[p] = NoPath)

\* C10: no failure inside WaitInLine's loop ends the host process.
C10_NeverFatal == \A p \in Procs : pc[p] # "fatal"

\* p's WaitInLine has returned to its caller, as first in line or cancelled.
HasReturned(p) == pc[p] = "idle" /\ result[p] \in {"first", "cancelled"}

\* C11: once WaitInLine has returned, no watcher it created is still open:
\* the watcher of its latest subscription is closed (or there never was
\* one).
C11_NoOpenWatcherAfterReturn ==
  \A p \in Procs : HasReturned(p) => watcher[p] \in {"none", "closed"}

\* C12: a WaitForFile whose setup failed (NewWatcher or watcher.Add returned
\* an error) does not stay in the send of that error: WaitForFile returns
\* and WaitInLine gets to see the error.
C12_SetupFailureReachesCaller ==
  \A p \in Procs : (pc[p] = "wf_send") ~> (pc[p] # "wf_send")

\* C13: the goroutine of a subscription sends on the result channel once:
\* after it has delivered a value it is never at a send again, the watcher
\* closed or not.
C13_NoSecondSend ==
  \A p \in Procs :
    delivered[p] >= 1 => gor[p] \notin {"send_nil", "send_err"}

\* C14: an error the goroutine receives from the notification subsystem is
\* passed on as an error: the step that takes it from watcher.Errors leaves
\* the goroutine at the send of an error.
C14_ErrorIsPassedOn ==
  [][\A p \in Procs :
       errors'[p] < errors[p] /\ gor[p] = "select" /\ gor'[p] # "none"
         => gor'[p] = "send_err"]_vars

\* C20: once the watcher of a subscription is closed, the goroutine of that
\* subscription ends.
C20_GoroutineEnds ==
  \A p \in Procs : (watcher[p] = "closed") ~> (gor[p] = "none")

\* Contender c is in a CutInLine that has removed the wait file b was
\* blocked behind (b has been woken: its watcher is closed), b's wait file
\* comes next in c's listing, and c's own wait file is present.
CutsAhead(c, b) ==
  /\ pc[c] = "cut_loop"
  /\ FilePath[c] \in dir
  /\ watcher[b] = "closed"
  /\ idx[c] > 1 /\ idx[c] <= Len(files[c])
  /\ files[c][idx[c]] = FilePath[b]
  /\ StrLess(FilePath[b], FilePath[c])

\* C15: a contender that was blocked behind a wait file a line-cutter has
\* removed does not return from WaitInLine as first in line while the
\* cutter's wait file is present.
C15_OvertakenIsNotFirst ==
  [][\A b \in Procs :
       ReturnsFirst(b) => ~\E c \in Procs \ {b} : CutsAhead(c, b)]_vars

\* This step is p's CutInLine returning the error of a failed removal.
CutReturnsErr(p) ==
  pc[p] = "cut_loop" /\ pc'[p] = "idle" /\ result'[p] = "cut_err"

\* C16: when CutInLine returns the error of a failed removal, the entries it
\* has removed by then (those of its listing before the one that failed)
\* all sort before the caller's wait file: the caller's own wait file and
\* the later ones were left as they were.
C16_ErrorLeavesLaterFiles ==
  [][\A p \in Procs :
       CutReturnsErr(p) =>
         \A i \in 1..(idx[p] - 1) : StrLess(files[p][i], FilePath[p])]_vars

\* C17: a wait file created at a later instant than every wait file created
\* before it has a name that sorts after all of their names.
C17_LaterNameSortsLater ==
  [][\A p \in Procs :
       (FilePath[p] = NoPath /\ FilePath'[p] # NoPath) =>
         \A q \in Procs :
           FilePath[q] # NoPath => StrLess(FilePath[q], FilePath'[p])]_vars

\* C18: with names that sort in creation order, no two contenders have the
\* lock while the wait files of both are in the directory.
C18_OneHolderPresent ==
  \A p \in Procs, q \in Procs :
    (Holds(p) /\ Holds(q) /\ FilePath[p] \in dir /\ FilePath[q] \in dir)
    => p = q

\* C18 witness: two contenders have the lock at once, one by cutting in line
\* with its wait file present, the other with its wait file gone.
C18_Witness ==
  \E p \in Procs, q \in Procs :
    /\ Holds(p) /\ result[p] = "cut_ok" /\ FilePath[p] \in dir
    /\ Holds(q) /\ result[q] = "first" /\ FilePath[q] \notin dir

\* C19: a WaitInLine that was woken (its watcher is closed) and whose fresh
\* listing has a file that sorts before its own does not return: it goes on
\* to watch the largest present file that sorts before its own.
C19_RequeuesBehindLargest ==
  [][\A p \in Procs :
       (/\ pc[p] = "wl_list" /\ pc'[p] # "wl_list"
        /\ watcher[p] = "closed"
        /\ Ahead(FilePath[p]) # {})
       => /\ pc'[p] = "wl_watch"
          /\ toWatch'[p] \in Ahead(FilePath[p])
          /\ \A m \in Ahead(FilePath[p]) : ~StrLess(toWatch'[p], m)]_vars
====
